---- MODULE Spec2Model ----
(***************************************************************************)
(* WiFiCreds: a static accessor over the compiled-in CREDENTIAL_SETS       *)
(* table (src/src/WiFiCreds.cpp, src/src/WiFiCreds.h,                      *)
(* src/src/credentials.h).                                                 *)
(*                                                                         *)
(* A C string pointer is either NULL or S(chars), chars a sequence of      *)
(* character codes (the bytes before the terminating 0).  A pointer to a   *)
(* CredentialSet is either NULL or At(i), i the 0-based array index.       *)
(* The table is the memory that starts at CREDENTIAL_SETS[0]: the cells    *)
(* the code can read before it stops scanning.  tbl[i + 1] is              *)
(* CREDENTIAL_SETS[i].                                                     *)
(***************************************************************************)
EXTENDS Integers, Sequences, FiniteSets, TLC

VARIABLES
    table,      \* CREDENTIAL_SETS, as laid out in memory
    last,       \* the last completed call (sequential specification)
    op,         \* per thread: the public operation being run, or "idle"
    arg,        \* per thread: the argument of that operation
    stack,      \* per thread: the program points still to run (top first)
    loc,        \* per thread: the locals of the active functions
    count,      \* storage of getCredentialCount's local 'count', per slot
    result      \* per thread: the value returned by the finished call

vars == <<table, last, op, arg, stack, loc, count, result>>

-----------------------------------------------------------------------------
(* Bounds of the model *)

MaxLen == 3          \* cells of a short table in front of the final sentinel

(* Program constants *)

SafetyLimit == 1000  \* "count < 1000" in getCredentialCount

-----------------------------------------------------------------------------
(* Values *)

NULL == [null |-> TRUE]

S(chars) == [null |-> FALSE, str |-> chars]

At(i) == [null |-> FALSE, idx |-> i]

CredentialSet(n, s, p) == [name |-> n, ssid |-> s, password |-> p]

(* character codes *)
Ch_a == <<97>>
Ch_A == <<65>>
Ch_ab == <<97, 98>>
Ch_s == <<115>>
Ch_t == <<116>>
Ch_p == <<112>>
Ch_q == <<113>>
Empty == <<>>

(* <string.h> *)
strlen(s) == Len(s.str)

RECURSIVE strcmpFrom(_, _, _)
strcmpFrom(a, b, k) ==
    LET ca == IF k <= Len(a) THEN a[k] ELSE 0
        cb == IF k <= Len(b) THEN b[k] ELSE 0
    IN  IF ca /= cb THEN ca - cb
        ELSE IF ca = 0 THEN 0
        ELSE strcmpFrom(a, b, k + 1)

(* a variant that folds case, as strcasecmp does *)
Lower(chars) ==
    [k \in 1..Len(chars) |->
        IF chars[k] >= 65 /\ chars[k] <= 90 THEN chars[k] + 32 ELSE chars[k]]

strcmp_IgnoreCase(a, b) == strcmpFrom(Lower(a.str), Lower(b.str), 1)

strcmp(a, b) == strcmpFrom(a.str, b.str, 1)

-----------------------------------------------------------------------------
(* The tables the program may be built with *)

Terminator == CredentialSet(NULL, NULL, NULL)

NamedCells ==
    { CredentialSet(S(Ch_a), S(Ch_s), S(Ch_p)),
      CredentialSet(S(Ch_a), S(Ch_t), S(Ch_q)),
      CredentialSet(S(Ch_a), NULL, S(Ch_p)),
      CredentialSet(S(Ch_a), S(Ch_s), S(Empty)),
      CredentialSet(S(Ch_A), S(Ch_s), S(Ch_p)),
      CredentialSet(S(Ch_A), S(Ch_t), S(Empty)),
      CredentialSet(S(Ch_A), S(Empty), S(Ch_q)),
      CredentialSet(S(Empty), S(Ch_s), S(Ch_p)),
      CredentialSet(S(Empty), S(Empty), S(Ch_p)),
      CredentialSet(S(Empty), S(Ch_t), NULL) }

(* cells whose name is nullptr: the terminator of credentials.h, and a     *)
(* terminator whose other fields were filled in                            *)
NullNamedCells == { Terminator, CredentialSet(NULL, S(Ch_s), S(Ch_p)) }

Cells == NamedCells \cup NullNamedCells

(* MaxLen arbitrary cells followed by the terminator: every table of at    *)
(* most MaxLen records, and whatever the array holds after its first       *)
(* terminator                                                              *)
ShortTables == { Append(c, Terminator) : c \in [1..MaxLen -> Cells] }

Filler == CredentialSet(S(Ch_a), S(Ch_s), S(Ch_p))
Extra == CredentialSet(S(Ch_A), S(Ch_t), S(Ch_q))

(* SafetyLimit named records and no terminator in the cells the scan reads *)
Unterminated == [i \in 1..SafetyLimit |-> Filler]

(* SafetyLimit records, then the terminator *)
Full == [i \in 1..(SafetyLimit + 1) |->
            IF i <= SafetyLimit THEN Filler ELSE Terminator]

(* SafetyLimit + 1 records, then the terminator *)
Oversized == [i \in 1..(SafetyLimit + 2) |->
                 IF i <= SafetyLimit THEN Filler
                 ELSE IF i = SafetyLimit + 1 THEN Extra ELSE Terminator]

LongTables == { Unterminated, Full, Oversized }

Tables == ShortTables \cup LongTables

Names == { NULL, S(Empty), S(Ch_a), S(Ch_A), S(Ch_ab) }

Indices == 0..(MaxLen + 1) \cup { SafetyLimit - 1, SafetyLimit, SafetyLimit + 1 }

Fields == { "name", "ssid", "password" }

-----------------------------------------------------------------------------
(* WiFiCreds.cpp, as functions of the table.  Each returns [ret, reads]:   *)
(* the value the C++ function returns and the set of <<index, field>>      *)
(* cells of the table it read to compute it.                               *)

Min(a, b) == IF a < b THEN a ELSE b

(* a variant that also stops at a record whose name is the empty string *)
CountCond_EmptyEnds(tbl, n) ==
    n < SafetyLimit /\ tbl[n + 1].name /= NULL /\ tbl[n + 1].name.str /= <<>>

(* The condition of the while loop of getCredentialCount. *)
CountCond(tbl, n) == n < SafetyLimit /\ tbl[n + 1].name /= NULL

(* The while loop of getCredentialCount, run from count = n for at most    *)
(* 'fuel' iterations.  The iterations are run in order; the budget is      *)
(* split in halves only to keep the evaluation depth logarithmic.  A run   *)
(* with fuel = SafetyLimit is the whole loop: the condition fails after    *)
(* SafetyLimit increments at the latest.                                   *)
RECURSIVE CountLoop(_, _, _)
CountLoop(tbl, n, fuel) ==
    IF ~CountCond(tbl, n) THEN n
    ELSE IF fuel <= 1 THEN n + 1
    ELSE CountLoop(tbl, CountLoop(tbl, n, fuel \div 2), fuel - (fuel \div 2))

getCredentialCount(tbl) ==
    LET n == CountLoop(tbl, 0, SafetyLimit)
    IN  [ret |-> n,
         \* the loop tested .name of entries 0..n, but never entry SafetyLimit
         reads |-> { <<i, "name">> : i \in 0..Min(n, SafetyLimit - 1) }]

(* a variant that checks the index against the size of the array *)
getCredentialName_ArrayBound(tbl, index) ==
    IF index < Len(tbl)
    THEN [ret |-> tbl[index + 1].name, reads |-> { <<index, "name">> }]
    ELSE [ret |-> NULL, reads |-> {}]

getCredentialName(tbl, index) ==
    LET totalCount == getCredentialCount(tbl)
    IN  IF index < totalCount.ret
        THEN [ret |-> tbl[index + 1].name,
              reads |-> totalCount.reads \cup { <<index, "name">> }]
        ELSE [ret |-> NULL, reads |-> totalCount.reads]

(* a variant that compares only the first strlen(record name) characters *)
FindCond_Prefix(tbl, name, i, n) ==
    /\ i < n
    /\ SubSeq(name.str, 1, Min(Len(name.str), Len(tbl[i + 1].name.str)))
           /= tbl[i + 1].name.str

(* The for loop of findCredential keeps going while FindCond holds.  The   *)
(* loop from index i with bound n, for at most 'fuel' iterations, yields   *)
(* the index it stopped at: below n when it returned &CREDENTIAL_SETS[i],  *)
(* n when it ran off the end.                                              *)
FindCond(tbl, name, i, n) == i < n /\ strcmp(tbl[i + 1].name, name) /= 0

RECURSIVE FindLoop(_, _, _, _, _)
FindLoop(tbl, name, i, n, fuel) ==
    IF ~FindCond(tbl, name, i, n) THEN i
    ELSE IF fuel <= 1 THEN i + 1
    ELSE FindLoop(tbl, name, FindLoop(tbl, name, i, n, fuel \div 2), n,
                  fuel - (fuel \div 2))

findCredential(tbl, name) ==
    IF name = NULL THEN [ret |-> NULL, reads |-> {}]
    ELSE LET cnt == getCredentialCount(tbl)
             i == FindLoop(tbl, name, 0, cnt.ret, SafetyLimit)
         IN  IF i < cnt.ret
             THEN [ret |-> At(i),
                   reads |-> cnt.reads \cup { <<k, "name">> : k \in 0..i }]
             ELSE [ret |-> NULL, reads |-> cnt.reads]

(* a variant that does not look at the count *)
getDefaultCredential_Unchecked(tbl) ==
    [ret |-> At(0), reads |-> getCredentialCount(tbl).reads]

getDefaultCredential(tbl) ==
    LET cnt == getCredentialCount(tbl)
    IN  [ret |-> IF cnt.ret > 0 THEN At(0) ELSE NULL, reads |-> cnt.reads]

(* a variant without the fall back to the default *)
getSSID_NoFallback(tbl, name) ==
    LET first == IF name /= NULL THEN findCredential(tbl, name)
                 ELSE getDefaultCredential(tbl)
    IN  IF first.ret /= NULL
        THEN [ret |-> tbl[first.ret.idx + 1].ssid,
              reads |-> first.reads \cup { <<first.ret.idx, "ssid">> }]
        ELSE [ret |-> NULL, reads |-> first.reads]

getSSID(tbl, name) ==
    LET first == IF name /= NULL THEN findCredential(tbl, name)
                 ELSE getDefaultCredential(tbl)
        again == first.ret = NULL /\ name /= NULL
        fallback == getDefaultCredential(tbl)
        cred == IF again THEN fallback.ret ELSE first.ret
        rd == IF again THEN first.reads \cup fallback.reads ELSE first.reads
    IN  IF cred /= NULL
        THEN [ret |-> tbl[cred.idx + 1].ssid,
              reads |-> rd \cup { <<cred.idx, "ssid">> }]
        ELSE [ret |-> NULL, reads |-> rd]

getPassword(tbl, name) ==
    LET first == IF name /= NULL THEN findCredential(tbl, name)
                 ELSE getDefaultCredential(tbl)
        again == first.ret = NULL /\ name /= NULL
        fallback == getDefaultCredential(tbl)
        cred == IF again THEN fallback.ret ELSE first.ret
        rd == IF again THEN first.reads \cup fallback.reads ELSE first.reads
    IN  IF cred /= NULL
        THEN [ret |-> tbl[cred.idx + 1].password,
              reads |-> rd \cup { <<cred.idx, "password">> }]
        ELSE [ret |-> NULL, reads |-> rd]

(* a variant that checks the pointers only *)
isValid_PointersOnly(tbl, name) ==
    LET ssid == getSSID(tbl, name)
        password == getPassword(tbl, name)
    IN  [ret |-> ~(ssid.ret = NULL \/ password.ret = NULL),
         reads |-> ssid.reads \cup password.reads]

isValid(tbl, name) ==
    LET ssid == getSSID(tbl, name)
        password == getPassword(tbl, name)
        rd == ssid.reads \cup password.reads
    IN  IF ssid.ret = NULL \/ password.ret = NULL
        THEN [ret |-> FALSE, reads |-> rd]
        ELSE IF strlen(ssid.ret) = 0 \/ strlen(password.ret) = 0
        THEN [ret |-> FALSE, reads |-> rd]
        ELSE [ret |-> TRUE, reads |-> rd]

getSSIDLength(tbl, name) ==
    LET ssid == getSSID(tbl, name)
    IN  [ret |-> IF ssid.ret /= NULL THEN strlen(ssid.ret) ELSE 0,
         reads |-> ssid.reads]

getPasswordLength(tbl, name) ==
    LET password == getPassword(tbl, name)
    IN  [ret |-> IF password.ret /= NULL THEN strlen(password.ret) ELSE 0,
         reads |-> password.reads]

(* a variant that resolves the name the way getSSID does *)
hasCredential_ViaGetSSID(tbl, name) ==
    LET ssid == getSSID(tbl, name)
    IN  [ret |-> name /= NULL /\ ssid.ret /= NULL, reads |-> ssid.reads]

hasCredential(tbl, name) ==
    IF name = NULL THEN [ret |-> FALSE, reads |-> {}]
    ELSE LET cred == findCredential(tbl, name)
         IN  [ret |-> cred.ret /= NULL, reads |-> cred.reads]

getDefaultName(tbl) == getCredentialName(tbl, 0)

-----------------------------------------------------------------------------
(* Sequential use: one call at a time.  A call runs to completion and is   *)
(* recorded in 'last'; the caller then takes the returned value (Resume)   *)
(* and may call again.  The private helpers findCredential and             *)
(* getDefaultCredential are called too, so that what they return is        *)
(* observable.                                                             *)

NoCall == [op |-> "none", name |-> NULL, index |-> 0, ret |-> NULL, reads |-> {}]

Done(o, name, index, r) ==
    [op |-> o, name |-> name, index |-> index, ret |-> r.ret, reads |-> r.reads]

Threads == { "t1", "t2" }

NoArg == [name |-> NULL, index |-> 0]

(* the locals of a thread's active functions: rv is the value the last     *)
(* finished callee returned, n and i are findCredential's count and i,     *)
(* index is getCredentialName's parameter, ssid is isValid's ssid          *)
NoLocals == [rv |-> NULL, n |-> 0, i |-> 0, index |-> 0, ssid |-> NULL]

ThreadsIdle ==
    /\ op = [t \in Threads |-> "idle"]
    /\ arg = [t \in Threads |-> NoArg]
    /\ stack = [t \in Threads |-> <<>>]
    /\ loc = [t \in Threads |-> NoLocals]
    /\ count = [t \in Threads |-> 0]
    /\ result = [t \in Threads |-> NULL]

Init ==
    /\ table \in Tables
    /\ last = NoCall
    /\ ThreadsIdle

Returns(l) ==
    /\ last = NoCall
    /\ last' = l
    /\ UNCHANGED <<table, op, arg, stack, loc, count, result>>

CallGetSSID ==
    \E name \in Names : Returns(Done("getSSID", name, 0, getSSID(table, name)))

CallGetPassword ==
    \E name \in Names : Returns(Done("getPassword", name, 0, getPassword(table, name)))

CallIsValid ==
    \E name \in Names : Returns(Done("isValid", name, 0, isValid(table, name)))

CallGetSSIDLength ==
    \E name \in Names :
        Returns(Done("getSSIDLength", name, 0, getSSIDLength(table, name)))

CallGetPasswordLength ==
    \E name \in Names :
        Returns(Done("getPasswordLength", name, 0, getPasswordLength(table, name)))

CallGetCredentialCount ==
    Returns(Done("getCredentialCount", NULL, 0, getCredentialCount(table)))

CallGetCredentialName ==
    \E index \in Indices :
        Returns(Done("getCredentialName", NULL, index, getCredentialName(table, index)))

CallHasCredential ==
    \E name \in Names :
        Returns(Done("hasCredential", name, 0, hasCredential(table, name)))

CallGetDefaultName ==
    Returns(Done("getDefaultName", NULL, 0, getDefaultName(table)))

CallFindCredential ==
    \E name \in Names :
        Returns(Done("findCredential", name, 0, findCredential(table, name)))

CallGetDefaultCredential ==
    Returns(Done("getDefaultCredential", NULL, 0, getDefaultCredential(table)))

Resume ==
    /\ last /= NoCall
    /\ last' = NoCall
    /\ UNCHANGED <<table, op, arg, stack, loc, count, result>>

Next ==
    \/ CallGetSSID
    \/ CallGetPassword
    \/ CallIsValid
    \/ CallGetSSIDLength
    \/ CallGetPasswordLength
    \/ CallGetCredentialCount
    \/ CallGetCredentialName
    \/ CallHasCredential
    \/ CallGetDefaultName
    \/ CallFindCredential
    \/ CallGetDefaultCredential
    \/ Resume

Spec == Init /\ [][Next]_vars

-----------------------------------------------------------------------------
(* Concurrent use: each thread calls public operations, one statement at a *)
(* time, interleaved with the other thread's statements.  stack[t] holds   *)
(* the program points thread t still has to run, the current one first; a  *)
(* call puts the callee's entry in front of the caller's continuation.     *)

(* the tables of the concurrent specification *)
ConcTables ==
    { <<Terminator>>,
      <<CredentialSet(S(Ch_a), S(Ch_s), S(Ch_p)),
        CredentialSet(S(Ch_A), S(Ch_t), S(Empty)),
        Terminator>>,
      <<CredentialSet(S(Ch_A), NULL, S(Ch_p)),
        CredentialSet(S(Ch_a), S(Ch_t), S(Ch_q)),
        Terminator>> }

ConcNames == { NULL, S(Ch_a), S(Ch_ab) }

ConcIndices == { 0, 2 }

Entry ==
    [getSSID |-> "gs_entry", getPassword |-> "gp_entry", isValid |-> "iv_entry",
     getSSIDLength |-> "sl_entry", getPasswordLength |-> "pl_entry",
     getCredentialCount |-> "cc_init", getCredentialName |-> "cn_entry",
     hasCredential |-> "hc_entry", getDefaultName |-> "dn_entry"]

PublicOps == DOMAIN Entry

ArgsOf(o) ==
    IF o \in { "getCredentialCount", "getDefaultName" } THEN { NoArg }
    ELSE IF o = "getCredentialName"
    THEN { [name |-> NULL, index |-> k] : k \in ConcIndices }
    ELSE { [name |-> n, index |-> 0] : n \in ConcNames }

(* where getCredentialCount's automatic variable 'count' of thread t lives *)
CountSlot_Static(t) == "t1"

CountSlot(t) == t

At_(t, label) == stack[t] /= <<>> /\ Head(stack[t]) = label

(* replace the current program point by the given ones *)
Goto(t, labels) == stack' = [stack EXCEPT ![t] = labels \o Tail(@)]

(* return v to the caller, or to the thread when the public call ends *)
Ret(t, v) ==
    /\ stack' = [stack EXCEPT ![t] = Tail(@)]
    /\ IF Len(stack[t]) = 1
       THEN /\ result' = [result EXCEPT ![t] = v]
            /\ loc' = [loc EXCEPT ![t] = NoLocals]
       ELSE /\ loc' = [loc EXCEPT ![t].rv = v]
            /\ UNCHANGED result

Same(t) == UNCHANGED <<table, last, op, arg>>

Invoke(t) ==
    /\ op[t] = "idle"
    /\ \E o \in PublicOps : \E a \in ArgsOf(o) :
           /\ op' = [op EXCEPT ![t] = o]
           /\ arg' = [arg EXCEPT ![t] = a]
           /\ stack' = [stack EXCEPT ![t] = <<Entry[o]>>]
           /\ loc' = [loc EXCEPT ![t] = [NoLocals EXCEPT !.index = a.index]]
    /\ UNCHANGED <<table, last, count, result>>

StepGetCredentialCount(t) ==
    /\ Same(t)
    /\ \/ /\ At_(t, "cc_init")
          /\ count' = [count EXCEPT ![CountSlot(t)] = 0]
          /\ Goto(t, <<"cc_loop">>)
          /\ UNCHANGED <<loc, result>>
       \/ /\ At_(t, "cc_loop")
          /\ IF CountCond(table, count[CountSlot(t)])
             THEN /\ count' = [count EXCEPT ![CountSlot(t)] = @ + 1]
                  /\ UNCHANGED stack
             ELSE /\ Goto(t, <<"cc_ret">>)
                  /\ UNCHANGED count
          /\ UNCHANGED <<loc, result>>
       \/ /\ At_(t, "cc_ret")
          /\ Ret(t, count[CountSlot(t)])
          /\ UNCHANGED count

StepGetCredentialName(t) ==
    /\ Same(t)
    /\ UNCHANGED count
    /\ \/ /\ At_(t, "cn_entry")
          /\ Goto(t, <<"cc_init", "cn_test">>)
          /\ UNCHANGED <<loc, result>>
       \/ /\ At_(t, "cn_test")
          /\ Ret(t, IF loc[t].index < loc[t].rv
                    THEN table[loc[t].index + 1].name ELSE NULL)

StepGetDefaultName(t) ==
    /\ Same(t)
    /\ At_(t, "dn_entry")
    /\ loc' = [loc EXCEPT ![t].index = 0]
    /\ Goto(t, <<"cn_entry">>)
    /\ UNCHANGED <<count, result>>

StepFindCredential(t) ==
    /\ Same(t)
    /\ UNCHANGED count
    /\ \/ /\ At_(t, "fc_entry")
          /\ IF arg[t].name = NULL
             THEN Ret(t, NULL)
             ELSE Goto(t, <<"cc_init", "fc_start">>) /\ UNCHANGED <<loc, result>>
       \/ /\ At_(t, "fc_start")
          /\ loc' = [loc EXCEPT ![t].n = loc[t].rv, ![t].i = 0]
          /\ Goto(t, <<"fc_loop">>)
          /\ UNCHANGED result
       \/ /\ At_(t, "fc_loop")
          /\ IF loc[t].i < loc[t].n
             THEN IF strcmp(table[loc[t].i + 1].name, arg[t].name) = 0
                  THEN Ret(t, At(loc[t].i))
                  ELSE /\ loc' = [loc EXCEPT ![t].i = @ + 1]
                       /\ UNCHANGED <<stack, result>>
             ELSE Ret(t, NULL)

StepGetDefaultCredential(t) ==
    /\ Same(t)
    /\ UNCHANGED count
    /\ \/ /\ At_(t, "dc_entry")
          /\ Goto(t, <<"cc_init", "dc_test">>)
          /\ UNCHANGED <<loc, result>>
       \/ /\ At_(t, "dc_test")
          /\ Ret(t, IF loc[t].rv > 0 THEN At(0) ELSE NULL)

(* getSSID and getPassword differ in the field they return *)
StepGetter(t, entry, fallback, ret, field) ==
    /\ Same(t)
    /\ UNCHANGED count
    /\ \/ /\ At_(t, entry)
          /\ IF arg[t].name /= NULL
             THEN Goto(t, <<"fc_entry", fallback>>)
             ELSE Goto(t, <<"dc_entry", fallback>>)
          /\ UNCHANGED <<loc, result>>
       \/ /\ At_(t, fallback)
          /\ IF loc[t].rv = NULL /\ arg[t].name /= NULL
             THEN Goto(t, <<"dc_entry", ret>>)
             ELSE Goto(t, <<ret>>)
          /\ UNCHANGED <<loc, result>>
       \/ /\ At_(t, ret)
          /\ Ret(t, IF loc[t].rv /= NULL
                    THEN table[loc[t].rv.idx + 1][field] ELSE NULL)

StepGetSSID(t) == StepGetter(t, "gs_entry", "gs_fallback", "gs_ret", "ssid")

StepGetPassword(t) == StepGetter(t, "gp_entry", "gp_fallback", "gp_ret", "password")

StepIsValid(t) ==
    /\ Same(t)
    /\ UNCHANGED count
    /\ \/ /\ At_(t, "iv_entry")
          /\ Goto(t, <<"gs_entry", "iv_password">>)
          /\ UNCHANGED <<loc, result>>
       \/ /\ At_(t, "iv_password")
          /\ loc' = [loc EXCEPT ![t].ssid = loc[t].rv]
          /\ Goto(t, <<"gp_entry", "iv_test">>)
          /\ UNCHANGED result
       \/ /\ At_(t, "iv_test")
          /\ LET ssid == loc[t].ssid
                 password == loc[t].rv
             IN  Ret(t, IF ssid = NULL \/ password = NULL THEN FALSE
                        ELSE IF strlen(ssid) = 0 \/ strlen(password) = 0 THEN FALSE
                        ELSE TRUE)

StepGetLength(t, entry, ret, getter) ==
    /\ Same(t)
    /\ UNCHANGED count
    /\ \/ /\ At_(t, entry)
          /\ Goto(t, <<getter, ret>>)
          /\ UNCHANGED <<loc, result>>
       \/ /\ At_(t, ret)
          /\ Ret(t, IF loc[t].rv /= NULL THEN strlen(loc[t].rv) ELSE 0)

StepGetSSIDLength(t) == StepGetLength(t, "sl_entry", "sl_ret", "gs_entry")

StepGetPasswordLength(t) == StepGetLength(t, "pl_entry", "pl_ret", "gp_entry")

StepHasCredential(t) ==
    /\ Same(t)
    /\ UNCHANGED count
    /\ \/ /\ At_(t, "hc_entry")
          /\ IF arg[t].name = NULL
             THEN Ret(t, FALSE)
             ELSE Goto(t, <<"fc_entry", "hc_ret">>) /\ UNCHANGED <<loc, result>>
       \/ /\ At_(t, "hc_ret")
          /\ Ret(t, loc[t].rv /= NULL)

(* the caller takes the returned value *)
Finish(t) ==
    /\ op[t] /= "idle"
    /\ stack[t] = <<>>
    /\ op' = [op EXCEPT ![t] = "idle"]
    /\ arg' = [arg EXCEPT ![t] = NoArg]
    /\ result' = [result EXCEPT ![t] = NULL]
    /\ UNCHANGED <<table, last, stack, loc, count>>

InitConc ==
    /\ table \in ConcTables
    /\ last = NoCall
    /\ ThreadsIdle

NextConc ==
    \E t \in Threads :
        \/ Invoke(t)
        \/ StepGetCredentialCount(t)
        \/ StepGetCredentialName(t)
        \/ StepGetDefaultName(t)
        \/ StepFindCredential(t)
        \/ StepGetDefaultCredential(t)
        \/ StepGetSSID(t)
        \/ StepGetPassword(t)
        \/ StepIsValid(t)
        \/ StepGetSSIDLength(t)
        \/ StepGetPasswordLength(t)
        \/ StepHasCredential(t)
        \/ Finish(t)

SpecConc == InitConc /\ [][NextConc]_vars

(* what the call returns when it runs alone *)
Alone(o, a, tbl) ==
    CASE o = "getSSID" -> getSSID(tbl, a.name).ret
      [] o = "getPassword" -> getPassword(tbl, a.name).ret
      [] o = "isValid" -> isValid(tbl, a.name).ret
      [] o = "getSSIDLength" -> getSSIDLength(tbl, a.name).ret
      [] o = "getPasswordLength" -> getPasswordLength(tbl, a.name).ret
      [] o = "getCredentialCount" -> getCredentialCount(tbl).ret
      [] o = "getCredentialName" -> getCredentialName(tbl, a.index).ret
      [] o = "hasCredential" -> hasCredential(tbl, a.name).ret
      [] o = "getDefaultName" -> getDefaultName(tbl).ret

-----------------------------------------------------------------------------
(* The words of the claims, defined on the table itself. *)

(* positions (1-based) of the cells whose name is absent *)
NullNamed(tbl) == { i \in 1..Len(tbl) : tbl[i].name = NULL }

Terminated(tbl) == NullNamed(tbl) /= {}

(* the number of records strictly before the sentinel (all the cells, when *)
(* the table has none)                                                     *)
RecordCount(tbl) ==
    IF Terminated(tbl)
    THEN (CHOOSE i \in NullNamed(tbl) : \A j \in NullNamed(tbl) : i <= j) - 1
    ELSE Len(tbl)

(* indices (0-based) of the records before the sentinel, among the first   *)
(* 'limit' of them, that carry exactly this name                           *)
Matching(tbl, name, limit) ==
    { i \in 0..(Min(RecordCount(tbl), limit) - 1) : tbl[i + 1].name = name }

First(set) == CHOOSE i \in set : \A j \in set : i <= j

NonEmptyTable(tbl) == RecordCount(tbl) > 0

NonEmptyString(p) == p /= NULL /\ p.str /= <<>>

(* the field a getter returns from a record *)
FieldOf(o, rec) == IF o = "getSSID" THEN rec.ssid ELSE rec.password

Getters == { "getSSID", "getPassword" }

(* the cells of the sentinel, as <<index, field>> *)
SentinelCells(tbl) == { <<RecordCount(tbl), f>> : f \in Fields }

-----------------------------------------------------------------------------
(* C1: on a non-empty table, getSSID(n) and getPassword(n) of a supplied   *)
(* name n that matches no record return the ssid / password of the record  *)
(* at index 0, which is what they return for an absent name.               *)
C1_FallbackToDefault ==
    ( /\ last.op \in Getters
      /\ last.name /= NULL
      /\ NonEmptyTable(table)
      /\ Matching(table, last.name, RecordCount(table)) = {} )
    => /\ last.ret = FieldOf(last.op, table[1])
       /\ last.op = "getSSID" => last.ret = getSSID(table, NULL).ret
       /\ last.op = "getPassword" => last.ret = getPassword(table, NULL).ret

C1_Witness ==
    /\ last.op = "getSSID"
    /\ last.name = S(Ch_ab)
    /\ RecordCount(table) = 2
    /\ table[2].ssid /= table[1].ssid
    /\ last.ret = table[1].ssid
    /\ last.ret /= NULL

C5_AsStated ==
    /\ ( /\ last.op = "findCredential"
         /\ \/ last.name = NULL
            \/ last.name = S(Empty)
            \/ Matching(table, last.name, RecordCount(table)) = {} )
       => last.ret = NULL
    /\ (last.op = "hasCredential" /\ last.name = S(Empty)) => last.ret = FALSE
    /\ (last.op = "getSSID" /\ last.name = S(Empty))
       => last.ret = IF NonEmptyTable(table) THEN table[1].ssid ELSE NULL

(* C5, amended: find(name) is "not found" when name is absent, and when no *)
(* record before the sentinel has that exact name; the empty string is a   *)
(* name like any other: hasCredential("") is false and getSSID("") is the  *)
(* default record's when no record is named "".                            *)
C5_NotFound ==
    /\ ( /\ last.op = "findCredential"
         /\ \/ last.name = NULL
            \/ Matching(table, last.name, RecordCount(table)) = {} )
       => last.ret = NULL
    /\ ( /\ last.op = "hasCredential"
         /\ last.name = S(Empty)
         /\ Matching(table, S(Empty), RecordCount(table)) = {} )
       => last.ret = FALSE
    /\ ( /\ last.op = "getSSID"
         /\ last.name = S(Empty)
         /\ Matching(table, S(Empty), RecordCount(table)) = {} )
       => last.ret = IF NonEmptyTable(table) THEN table[1].ssid ELSE NULL

C5_Witness ==
    /\ last.op = "findCredential"
    /\ last.name = S(Empty)
    /\ RecordCount(table) = 2
    /\ last.ret = NULL

(* what each operation returns when nothing resolves *)
NotFound(o) ==
    IF o \in { "getSSIDLength", "getPasswordLength", "getCredentialCount" } THEN 0
    ELSE IF o \in { "isValid", "hasCredential" } THEN FALSE
    ELSE NULL

(* C6 as stated: on the empty table every operation returns "not found",   *)
(* 0 or false, for every argument, and reads no field of the sentinel.     *)
C6_AsStated ==
    (last.op /= "none" /\ RecordCount(table) = 0)
    => /\ last.ret = NotFound(last.op)
       /\ last.reads \cap SentinelCells(table) = {}

(* C6, amended: on the empty table every operation returns "not found", 0  *)
(* or false, for every argument; no operation reads the ssid or password   *)
(* of the sentinel, and the one sentinel field read is its name, which     *)
(* getCredentialCount tests against nullptr.                               *)
C6_EmptyTable ==
    (last.op /= "none" /\ RecordCount(table) = 0)
    => /\ last.ret = NotFound(last.op)
       /\ last.reads \subseteq { <<0, "name">> }

(* the sentinel holds an ssid, and getSSID of a supplied name still        *)
(* returns nullptr                                                         *)
C6_Witness ==
    /\ last.op = "getSSID"
    /\ last.name = S(Ch_a)
    /\ RecordCount(table) = 0
    /\ table[1].ssid /= NULL
    /\ last.ret = NULL
    /\ last.reads = { <<0, "name">> }

(* C7: isValid(n) is true iff getSSID(n) and getPassword(n) both resolve   *)
(* to non-empty strings; for a name that matches no record it is the       *)
(* validity of the default record.                                         *)
C7_IsValid ==
    last.op = "isValid"
    => /\ last.ret = ( /\ NonEmptyString(getSSID(table, last.name).ret)
                       /\ NonEmptyString(getPassword(table, last.name).ret) )
       /\ ( /\ last.name /= NULL
            /\ Matching(table, last.name, RecordCount(table)) = {}
            /\ NonEmptyTable(table) )
          => last.ret = ( /\ NonEmptyString(table[1].ssid)
                          /\ NonEmptyString(table[1].password) )

(* a non-matching name, and a default record with an empty password *)
C7_Witness ==
    /\ last.op = "isValid"
    /\ last.name = S(Ch_ab)
    /\ NonEmptyTable(table)
    /\ NonEmptyString(table[1].ssid)
    /\ table[1].password = S(Empty)
    /\ last.ret = FALSE

(* C8 as stated: on a table of SafetyLimit or more consecutive named       *)
(* records with no sentinel, count() scans at most SafetyLimit entries and *)
(* does not just return the bound as if it were a valid count.             *)
C8_AsStated ==
    ( /\ last.op = "getCredentialCount"
      /\ RecordCount(table) >= SafetyLimit
      /\ ~Terminated(table) )
    => /\ Cardinality(last.reads) <= SafetyLimit
       /\ last.ret /= SafetyLimit

(* C10: find and defaultRecord resolve to an index strictly below count()  *)
(* and strictly before the sentinel; nameAt(index) returns a name only     *)
(* when index < count() and "not found" for every index >= count().        *)
C10_NeverTheSentinel ==
    LET n == getCredentialCount(table).ret
    IN  /\ ( /\ last.op \in { "findCredential", "getDefaultCredential" }
             /\ last.ret /= NULL )
           => (last.ret.idx < n /\ last.ret.idx < RecordCount(table))
        /\ last.op \in { "getCredentialName", "getDefaultName" }
           => /\ last.ret /= NULL
                 => /\ last.index < n
                    /\ last.index < RecordCount(table)
                    /\ last.ret = table[last.index + 1].name
              /\ last.index >= n => last.ret = NULL

(* a named cell lies behind the sentinel, and nameAt of its index is       *)
(* "not found"                                                             *)
C10_Witness ==
    /\ last.op = "getCredentialName"
    /\ RecordCount(table) = 1
    /\ last.index = 2
    /\ table[3].name /= NULL
    /\ last.ret = NULL

(* C9: under any interleaving of the threads' calls no step modifies the   *)
(* table, and every call that ends returns what the same call returns      *)
(* when it runs alone on the same table and argument.                      *)
C9_ReadOnlyDeterministic ==
    [][ /\ table' = table
        /\ \A t \in Threads :
               (stack[t] /= <<>> /\ stack'[t] = <<>>)
               => result'[t] = Alone(op[t], arg[t], table) ]_vars

(* one thread's getSSID has ended with the second record's ssid while the  *)
(* other thread is in the middle of its scan                               *)
C9_Witness ==
    /\ Len(table) = 3
    /\ op["t1"] = "getSSID"
    /\ stack["t1"] = <<>>
    /\ result["t1"] = table[2].ssid
    /\ result["t1"] /= table[1].ssid
    /\ op["t2"] = "isValid"
    /\ stack["t2"] /= <<>>
    /\ Head(stack["t2"]) = "fc_loop"
    /\ loc["t2"].i = 1

====
